---- MODULE Spec2Model ----
(***************************************************************************)
(* CaskOS: a content-addressed object store.  The model covers the hash    *)
(* ring (internal/hashring), the storage nodes and the replication manager *)
(* (internal/storage) and the upload / metadata / self-heal handlers       *)
(* (internal/api).                                                         *)
(***************************************************************************)
EXTENDS Integers, Sequences, FiniteSets, TLC

\* ------------------------------------------------------------------ bounds
\* Virtual nodes per physical node (hashring.NewHashRing(virtualNodes)).
VirtualNodes == 1
\* The ring hashes into 0..HashMax (the code: 0..2^32-1).
HashMax == 3
\* AddNode is not taken once the virtual-entry list would exceed this length.
MaxRingEntries == 4
\* GetNodes is queried with count in 0..MaxCount.
MaxCount == 3

\* Concurrent clients; each has one request thread and one self-heal goroutine
\* at a time: a request that may start a self-heal waits for the client's
\* previous one to end.
NumClients == 2
\* Faults in one run that hit a blob or an upload: blobs removed behind the
\* manager's back (Node.Delete on a node directory) plus Node.Store calls of
\* StoreObject that fail.
MaxFaults == 1
\* Faults in one run that hit a self-heal run in progress: Node.Store calls of
\* ReplicateObject that fail, plus blobs deleted between the run's last
\* replication and its final CheckReplicas.
MaxHealFaults == 1

\* Threads that each run one manager or ring operation, lock by lock.
NumLockThreads == 2

\* Calls a test program makes on a node, one after the other.
MaxCalls == 3

\* The replication factor R (defaultReplication).
Replication == 2

\* The length of an ObjectID: hex.EncodeToString of a SHA-256 digest.
DigestHexLen == 64

\* main names the nodes node1, node2, ... in the order it creates them.
NodeOrder == <<"node1", "node2", "node3">>
NodeIDs == {NodeOrder[i] : i \in 1..Len(NodeOrder)}
\* The zero value of a Go string: what a lookup of a missing map key yields.
NoNode == ""
HashSpace == 0..HashMax

\* The byte strings clients upload.
Blobs == {<<7, 9>>}

\* storage.GenerateObjectID: the SHA-256 of the bytes in hex.  The digest is
\* modelled as an injective tag of the bytes (no two blobs of the model collide).
GenerateObjectID(data) == <<"sha256", data>>

ObjectIDs == {GenerateObjectID(b) : b \in Blobs}

\* Strings a caller can pass where an ObjectID is expected: one shorter than
\* the four characters the blob path is built from, one longer.
MalformedIDs == {<<"a", "b", "c">>, <<"a", "b", "c", "d", "e">>}
CallIDs == ObjectIDs \cup MalformedIDs

\* len(objectID)
IdLen(id) == IF id \in ObjectIDs THEN DigestHexLen ELSE Len(id)

\* The byte strings a test program stores on a node.
NodeBlobs == {<<7>>, <<7, 9>>}
\* The node the node-level calls are made on.
TestNodes == {"node1"}

\* fmt.Sprintf("%s:%d", nodeID, i)
VirtualKey(nodeID, i) == <<nodeID, ":", i>>

VirtualKeys == {VirtualKey(n, i) : n \in NodeIDs, i \in 0..(VirtualNodes - 1)}
HashInputs == VirtualKeys \cup ObjectIDs

Clients == 1..NumClients

VARIABLES
    hashTable,     \* the first four bytes of SHA-256 of each key, as a table
    hr,            \* the HashRing: nodes, sortedHashes, hashToNode
    mgrNodes,      \* Manager.nodes: the NodeIDs registered with the manager
    files,         \* files[n][id]: the blob file of id in node n's directory
    metadata,      \* metadata[id]: the persisted ObjectMetadata record
    req,           \* req[c]: the request handler thread of client c
    heal,          \* heal[c]: the ensureReplication goroutine spawned by client c
    serving,       \* the HTTP server has been started (main: after the node setup)
    deletes,       \* blobs deleted so far behind the manager's back
    storeFailures, \* StoreObject: Node.Store calls that failed before the file was created
    copyFailures,  \* StoreObject: Node.Store calls that failed in io.Copy and removed the file
    healFaults,    \* faults that hit a self-heal run in progress
    mu,            \* the reader/writer locks: Manager.mu, HashRing.mu, each Node.mu
    ops,           \* ops[t]: the manager or ring operation thread t runs, lock by lock
    log            \* the calls a test program made on a node or the manager, with their outcomes

ringVars == <<hashTable, hr>>
storeVars == <<mgrNodes, files, metadata, req, heal, serving, deletes, storeFailures, copyFailures, healFaults, log>>
lockVars == <<mu, ops>>
vars == <<hashTable, hr, mgrNodes, files, metadata, req, heal, serving, deletes, storeFailures, copyFailures, healFaults,
          mu, ops, log>>

\* ------------------------------------------------------------ helpers
Range(s) == {s[i] : i \in 1..Len(s)}

Min(a, b) == IF a < b THEN a ELSE b

RECURSIVE InsertSorted(_, _)
InsertSorted(s, x) ==
    IF s = <<>> THEN <<x>>
    ELSE IF x < Head(s) THEN <<x>> \o s
    ELSE <<Head(s)>> \o InsertSorted(Tail(s), x)

\* sort.Slice(hr.sortedHashes, less): the hashes in ascending order.
RECURSIVE SortHashes(_)
SortHashes(s) ==
    IF s = <<>> THEN <<>> ELSE InsertSorted(SortHashes(Tail(s)), Head(s))

\* m[k] of a Go map[uint32]string: the zero value when k is missing.
MapGet(m, k) == IF k \in DOMAIN m THEN m[k] ELSE NoNode
MapSet(m, k, v) == [x \in (DOMAIN m) \cup {k} |-> IF x = k THEN v ELSE m[x]]
MapDelete(m, k) == [x \in (DOMAIN m) \ {k} |-> m[x]]

\* ------------------------------------------------------------ hash ring
hashKey(key) == hashTable[key]

NewHashRing == [nodes |-> {}, sortedHashes |-> <<>>, hashToNode |-> <<>>]

\* The loop of AddNode over the virtual nodes i, i+1, ..., VirtualNodes-1.
RECURSIVE AddVirtualNodes(_, _, _)
AddVirtualNodes(r, nodeID, i) ==
    IF i >= VirtualNodes THEN r
    ELSE LET hash == hashKey(VirtualKey(nodeID, i))
         IN AddVirtualNodes(
                [r EXCEPT !.hashToNode = MapSet(r.hashToNode, hash, nodeID),
                          !.sortedHashes = Append(r.sortedHashes, hash)],
                nodeID, i + 1)

\* AddNode without the check for a node that is already in the ring.
AddNodeNoCheck(r, nodeID) ==
    LET r1 == [r EXCEPT !.nodes = r.nodes \cup {nodeID}]
        r2 == AddVirtualNodes(r1, nodeID, 0)
    IN [r2 EXCEPT !.sortedHashes = SortHashes(r2.sortedHashes)]

AddNode(r, nodeID) ==
    IF nodeID \in r.nodes THEN r
    ELSE LET r1 == [r EXCEPT !.nodes = r.nodes \cup {nodeID}]
             r2 == AddVirtualNodes(r1, nodeID, 0)
         IN [r2 EXCEPT !.sortedHashes = SortHashes(r2.sortedHashes)]

\* The loop of RemoveNode over hr.sortedHashes from position i (1-based) on:
\* an entry is dropped when the map names nodeID for its hash, and the map
\* entry is deleted at once, so a later entry of equal hash is kept.
RECURSIVE RemoveVirtualNodes(_, _, _, _)
RemoveVirtualNodes(r, nodeID, i, newHashes) ==
    IF i > Len(r.sortedHashes) THEN [r EXCEPT !.sortedHashes = newHashes]
    ELSE LET hash == r.sortedHashes[i]
         IN IF MapGet(r.hashToNode, hash) # nodeID
            THEN RemoveVirtualNodes(r, nodeID, i + 1, Append(newHashes, hash))
            ELSE RemoveVirtualNodes(
                     [r EXCEPT !.hashToNode = MapDelete(r.hashToNode, hash)],
                     nodeID, i + 1, newHashes)

RemoveNode(r, nodeID) ==
    IF nodeID \notin r.nodes THEN r
    ELSE RemoveVirtualNodes([r EXCEPT !.nodes = r.nodes \ {nodeID}], nodeID, 1, <<>>)

\* sort.Search: the smallest 0-based index in i..len whose hash is >= keyHash.
RECURSIVE SearchFrom(_, _, _)
SearchFrom(hashes, keyHash, i) ==
    IF i >= Len(hashes) THEN Len(hashes)
    ELSE IF hashes[i + 1] >= keyHash THEN i
    ELSE SearchFrom(hashes, keyHash, i + 1)

findNodeIndex(r, keyHash) ==
    LET idx == SearchFrom(r.sortedHashes, keyHash, 0)
    IN IF idx = Len(r.sortedHashes) THEN 0 ELSE idx

\* The collecting loop of GetNodes; idx is 0-based as in the code.
RECURSIVE CollectNodes(_, _, _, _, _)
CollectNodes(r, hash, count, idx, nodes) ==
    IF Len(nodes) >= count THEN nodes
    ELSE LET nodeHash == r.sortedHashes[idx + 1]
             nodeID == MapGet(r.hashToNode, nodeHash)
             nodes2 == IF nodeID \notin Range(nodes) THEN Append(nodes, nodeID) ELSE nodes
             idx2 == (idx + 1) % Len(r.sortedHashes)
         IN IF idx2 = findNodeIndex(r, hash) /\ Len(nodes2) < count
            THEN nodes2
            ELSE CollectNodes(r, hash, count, idx2, nodes2)

\* GetNodes: make([]string, 0, count) panics when count, after it is capped
\* at the number of nodes, is negative.
GetNodesPanics(r, count) ==
    /\ Cardinality(r.nodes) # 0
    /\ (IF count > Cardinality(r.nodes) THEN Cardinality(r.nodes) ELSE count) < 0

\* The collecting loop of GetNodes, counted: the number of iterations it runs,
\* or -1 when an iteration indexes sortedHashes outside 0..len-1 or the loop
\* runs more often than sortedHashes has entries.
RECURSIVE LoopSteps(_, _, _, _, _, _)
LoopSteps(r, hash, count, idx, nodes, steps) ==
    IF Len(nodes) >= count THEN steps
    ELSE IF idx < 0 \/ idx >= Len(r.sortedHashes) \/ steps >= Len(r.sortedHashes) THEN -1
    ELSE LET nodeHash == r.sortedHashes[idx + 1]
             nodeID == MapGet(r.hashToNode, nodeHash)
             nodes2 == IF nodeID \notin Range(nodes) THEN Append(nodes, nodeID) ELSE nodes
             idx2 == (idx + 1) % Len(r.sortedHashes)
         IN IF idx2 = findNodeIndex(r, hash) /\ Len(nodes2) < count
            THEN steps + 1
            ELSE LoopSteps(r, hash, count, idx2, nodes2, steps + 1)

GetNodes(r, key, count) ==
    IF Cardinality(r.nodes) = 0 THEN <<>>
    ELSE LET count2 == IF count > Cardinality(r.nodes) THEN Cardinality(r.nodes) ELSE count
             hash == hashKey(key)
         IN CollectNodes(r, hash, count2, findNodeIndex(r, hash), <<>>)

ListNodes(r) == r.nodes

NodeCount(r) == Cardinality(r.nodes)

\* ------------------------------------------------------ storage nodes
\* A blob path that does not exist, and a blob file with its bytes.
NoFile == [exists |-> FALSE, bytes |-> <<>>]
File(bytes) == [exists |-> TRUE, bytes |-> bytes]
NoMeta == [id |-> <<>>, size |-> 0, createdAt |-> 0, replicas |-> <<>>]
NoID == <<>>
NoReader == [kind |-> "none", node |-> NoNode, id |-> NoID, live |-> FALSE, data |-> <<>>]
NoResult == [op |-> "none", status |-> 0, err |-> "", id |-> NoID, replicas |-> <<>>,
             data |-> <<>>]

\* The bytes whose digest is id.
DataOf(id) == CHOOSE b \in Blobs : GenerateObjectID(b) = id

\* Node.Exists: os.Stat of the blob path succeeds.
Exists(n, id) == files[n][id].exists

\* Node.mu is held exclusively from the start of Node.Store to its return.
NodeWriteLocked(n) ==
    \E c \in Clients :
        \/ req[c].pc = "copy" /\ req[c].targets[req[c].i] = n
        \/ heal[c].pc = "copy" /\ heal[c].targets[heal[c].i] = n

\* Node.Retrieve: an *os.File open on the blob.  It reads the file's current
\* bytes for as long as the file is not unlinked, and the bytes the file had
\* when it was unlinked afterwards.
OpenReader(n, id) == [kind |-> "file", node |-> n, id |-> id, live |-> TRUE, data |-> <<>>]

\* io.Copy / io.ReadAll of a reader returned by Node.Retrieve.
ReadAll(rd) == IF rd.live THEN files[rd.node][rd.id].bytes ELSE rd.data

\* os.Remove of the blob of id on node n: readers open on it keep its bytes.
DetachReader(rd, n, id) ==
    IF rd.kind = "file" /\ rd.live /\ rd.node = n /\ rd.id = id
    THEN [rd EXCEPT !.live = FALSE, !.data = files[n][id].bytes]
    ELSE rd

Unlinked(threads, n, id) ==
    [c \in Clients |-> [threads[c] EXCEPT !.reader = DetachReader(@, n, id)]]

\* ------------------------------------------------- replication manager
\* RetrieveObject probing only the target at position i (no fallback).
FirstHolderNoFallback(targets, id, i) ==
    IF i <= Len(targets) /\ targets[i] \in mgrNodes /\ Exists(targets[i], id) THEN i ELSE 0

\* The first target, from position i on, that is registered and holds id
\* (RetrieveObject's loop); 0 when there is none.
RECURSIVE FirstHolder(_, _, _)
FirstHolder(targets, id, i) ==
    IF i > Len(targets) THEN 0
    ELSE IF targets[i] \in mgrNodes /\ Exists(targets[i], id) THEN i
    ELSE FirstHolder(targets, id, i + 1)

\* RetrieveObject falling back on any registered node that holds id.
RetrieveObjectAnyReplica(id) ==
    LET targets == GetNodes(hr, id, Replication)
        k == FirstHolder(targets, id, 1)
        others == {n \in mgrNodes : Exists(n, id)}
    IN IF k # 0 THEN targets[k]
       ELSE IF others # {} THEN CHOOSE n \in others : TRUE
       ELSE NoNode

\* RetrieveObject that probes the first ring target only.
RetrieveObjectFirstTarget(id) ==
    LET targets == GetNodes(hr, id, Replication)
    IN IF Len(targets) >= 1 /\ targets[1] \in mgrNodes /\ Exists(targets[1], id)
       THEN targets[1] ELSE NoNode

\* Manager.RetrieveObject: the node it opens the blob on, NoNode when the
\* object is on no registered target.
RetrieveObject(id) ==
    LET targets == GetNodes(hr, id, Replication)
        k == FirstHolder(targets, id, 1)
    IN IF k = 0 THEN NoNode ELSE targets[k]

\* RetrieveObject waits for Node.mu of each registered target it probes.
RetrieveBlocked(id) ==
    LET targets == GetNodes(hr, id, Replication)
        k == FirstHolder(targets, id, 1)
        last == IF k = 0 THEN Len(targets) ELSE k
    IN \E j \in 1..last : targets[j] \in mgrNodes /\ NodeWriteLocked(targets[j])

\* CheckReplicas probing only the ring targets of id.
CheckReplicasTargetsOnly(id) ==
    {n \in mgrNodes \cap Range(GetNodes(hr, id, Replication)) : Exists(n, id)}

\* Manager.CheckReplicas: the registered nodes on which Exists(id) holds.
CheckReplicas(id) == {n \in mgrNodes : Exists(n, id)}

\* CheckReplicas waits for Node.mu of every registered node.
CheckBlocked == \E n \in mgrNodes : NodeWriteLocked(n)

\* The orders in which CheckReplicas can list a set (Go map iteration order).
Orderings(S) ==
    {o \in [1..Cardinality(S) -> S] : \A i, j \in 1..Cardinality(S) : i # j => o[i] # o[j]}

\* Manager.GetTargetNodes
GetTargetNodes(id) == GetNodes(hr, id, Replication)

\* Manager.mu is read-locked by a StoreObject or ReplicateObject in progress.
ManagerReadLocked ==
    \E c \in Clients :
        \/ req[c].pc \in {"store", "copy"}
        \/ heal[c].pc \in {"storeBegin", "copy"}

\* ------------------------------------------------------ metadata store
\* metadata.Store.Exists / Get / Save: one record per object ID; Save replaces
\* the record atomically.
MetadataExists(id) == metadata[id] # NoMeta
MetadataGet(id) == metadata[id]
MetadataSave(meta) == [metadata EXCEPT ![meta.id] = meta]

\* ------------------------------------------------------------- locks
\* The lock skeleton of the manager and ring operations: what each operation
\* locks and unlocks, in the order of its code, run by LockThreads.
LockThreads == 1..NumLockThreads

\* The nodes the operations of the lock skeleton visit, in ring order.
LockTargets == <<"node1", "node2">>

\* Manager.mu, HashRing.mu and the Node.mu of each node.
LockNames == {"manager", "ring"} \cup Range(LockTargets)

LockOps == {"StoreObject", "RetrieveObject", "ReplicateObject", "CheckReplicas",
            "GetTargetNodes", "Manager.AddNode", "HashRing.AddNode",
            "HashRing.RemoveNode", "HashRing.GetNodes"}

RL(l) == [act |-> "RLock", lock |-> l]
RU(l) == [act |-> "RUnlock", lock |-> l]
WL(l) == [act |-> "Lock", lock |-> l]
WU(l) == [act |-> "Unlock", lock |-> l]

\* HashRing.GetNodes: hr.mu.RLock(); defer hr.mu.RUnlock()
GetNodesLocks == <<RL("ring"), RU("ring")>>
\* HashRing.AddNode / RemoveNode: hr.mu.Lock(); defer hr.mu.Unlock()
RingWriteLocks == <<WL("ring"), WU("ring")>>
\* Node.Exists, Node.Retrieve: n.mu.RLock(); defer n.mu.RUnlock()
NodeReadLocks(n) == <<RL(n), RU(n)>>
\* Node.Store: n.mu.Lock(); defer n.mu.Unlock()
NodeStoreLocks(n) == <<WL(n), WU(n)>>

\* Manager.RetrieveObject on the path where the first target lacks the object
\* and the second holds it: Exists, then Exists and Retrieve.
RetrieveObjectLocks ==
    <<RL("manager")>> \o GetNodesLocks \o NodeReadLocks(LockTargets[1])
        \o NodeReadLocks(LockTargets[2]) \o NodeReadLocks(LockTargets[2])
        \o <<RU("manager")>>

\* Manager.StoreObject: GetNodes, then Node.Store on each target.
StoreObjectLocks ==
    <<RL("manager")>> \o GetNodesLocks \o NodeStoreLocks(LockTargets[1])
        \o NodeStoreLocks(LockTargets[2]) \o <<RU("manager")>>

\* Manager.ReplicateObject: m.mu.RLock, the whole of RetrieveObject (which
\* read-locks m.mu again), Node.Store on the target, m.mu.RUnlock.
ReplicateObjectLocks ==
    <<RL("manager")>> \o RetrieveObjectLocks \o NodeStoreLocks(LockTargets[1])
        \o <<RU("manager")>>

\* Manager.CheckReplicas: Exists on every registered node.
CheckReplicasLocks ==
    <<RL("manager")>> \o NodeReadLocks(LockTargets[1]) \o NodeReadLocks(LockTargets[2])
        \o <<RU("manager")>>

\* GetTargetNodes taking the ring lock before the manager lock.
GetTargetNodesLocksRingFirst == <<RL("ring"), RL("manager"), RU("manager"), RU("ring")>>

\* Manager.GetTargetNodes
GetTargetNodesLocks == <<RL("manager")>> \o GetNodesLocks \o <<RU("manager")>>

\* Manager.AddNode: m.mu.Lock(); defer m.mu.Unlock()
ManagerAddNodeLocks == <<WL("manager"), WU("manager")>>

LockProgram(op) ==
    CASE op = "StoreObject" -> StoreObjectLocks
      [] op = "RetrieveObject" -> RetrieveObjectLocks
      [] op = "ReplicateObject" -> ReplicateObjectLocks
      [] op = "CheckReplicas" -> CheckReplicasLocks
      [] op = "GetTargetNodes" -> GetTargetNodesLocks
      [] op = "Manager.AddNode" -> ManagerAddNodeLocks
      [] op = "HashRing.AddNode" -> RingWriteLocks
      [] op = "HashRing.RemoveNode" -> RingWriteLocks
      [] op = "HashRing.GetNodes" -> GetNodesLocks
      [] OTHER -> <<>>

\* A sync.RWMutex: the read locks each thread holds, the writer that has
\* announced itself (0: none; from then on RLock blocks), and whether that
\* writer has the lock.
FreeLock == [readers |-> [t \in LockThreads |-> 0], writer |-> 0, held |-> FALSE]

NoOp == [op |-> "none", pc |-> 0, announced |-> FALSE, returned |-> FALSE]

InitLocks ==
    /\ mu = [l \in LockNames |-> FreeLock]
    /\ ops = [t \in LockThreads |-> NoOp]

\* The instruction thread t is at; none when it runs nothing or is past the end.
Running(t) == ops[t].op # "none" /\ ~ops[t].returned /\ ops[t].pc <= Len(LockProgram(ops[t].op))
Instr(t) == LockProgram(ops[t].op)[ops[t].pc]

\* Thread t holds lock l, shared or exclusive.
Holds(t, l) == mu[l].readers[t] > 0 \/ (mu[l].writer = t /\ mu[l].held)

\* A thread calls an operation.
OpStart(t, op) ==
    /\ ops[t].op = "none"
    /\ ops' = [ops EXCEPT ![t] = [NoOp EXCEPT !.op = op, !.pc = 1]]
    /\ UNCHANGED <<ringVars, storeVars, mu>>

\* RWMutex.RLock: waits while a writer holds the lock or has announced itself.
OpRLock(t) ==
    /\ Running(t)
    /\ Instr(t).act = "RLock"
    /\ mu[Instr(t).lock].writer = 0
    /\ mu' = [mu EXCEPT ![Instr(t).lock].readers[t] = @ + 1]
    /\ ops' = [ops EXCEPT ![t].pc = @ + 1]
    /\ UNCHANGED <<ringVars, storeVars>>

\* RWMutex.RUnlock
OpRUnlock(t) ==
    /\ Running(t)
    /\ Instr(t).act = "RUnlock"
    /\ mu' = [mu EXCEPT ![Instr(t).lock].readers[t] = @ - 1]
    /\ ops' = [ops EXCEPT ![t].pc = @ + 1]
    /\ UNCHANGED <<ringVars, storeVars>>

\* RWMutex.Lock, first half: the writer announces itself (one writer at a time).
OpLockAnnounce(t) ==
    /\ Running(t)
    /\ Instr(t).act = "Lock"
    /\ ~ops[t].announced
    /\ mu[Instr(t).lock].writer = 0
    /\ mu' = [mu EXCEPT ![Instr(t).lock].writer = t]
    /\ ops' = [ops EXCEPT ![t].announced = TRUE]
    /\ UNCHANGED <<ringVars, storeVars>>

\* RWMutex.Lock, second half: the readers have left, the writer has the lock.
OpLockAcquire(t) ==
    /\ Running(t)
    /\ Instr(t).act = "Lock"
    /\ ops[t].announced
    /\ \A u \in LockThreads : mu[Instr(t).lock].readers[u] = 0
    /\ mu' = [mu EXCEPT ![Instr(t).lock].held = TRUE]
    /\ ops' = [ops EXCEPT ![t].pc = @ + 1, ![t].announced = FALSE]
    /\ UNCHANGED <<ringVars, storeVars>>

\* RWMutex.Unlock
OpUnlock(t) ==
    /\ Running(t)
    /\ Instr(t).act = "Unlock"
    /\ mu' = [mu EXCEPT ![Instr(t).lock].writer = 0, ![Instr(t).lock].held = FALSE]
    /\ ops' = [ops EXCEPT ![t].pc = @ + 1]
    /\ UNCHANGED <<ringVars, storeVars>>

\* The operation returns to its caller.
OpReturn(t) ==
    /\ ops[t].op # "none"
    /\ ~ops[t].returned
    /\ ops[t].pc > Len(LockProgram(ops[t].op))
    /\ ops' = [ops EXCEPT ![t].returned = TRUE]
    /\ UNCHANGED <<ringVars, storeVars, mu>>

\* --------------------------------------------------------- threads
IdleReq(result) ==
    [pc |-> "idle", id |-> NoID, data |-> <<>>, targets |-> <<>>, i |-> 0,
     replicatedNodes |-> <<>>, outcomes |-> <<>>, reader |-> NoReader, result |-> result]

IdleHeal ==
    [pc |-> "idle", id |-> NoID, meta |-> NoMeta, availableReplicas |-> {},
     targets |-> <<>>, i |-> 0, replicated |-> 0, reader |-> NoReader]

\* go s.ensureReplication(objectID, meta)
SpawnHeal(id, meta) == [IdleHeal EXCEPT !.pc = "check", !.id = id, !.meta = meta]

Result(op, status, err, id, replicas, data) ==
    [op |-> op, status |-> status, err |-> err, id |-> id, replicas |-> replicas,
     data |-> data]

\* ----------------------------------------------------- membership
InitStore ==
    /\ mgrNodes = {}
    /\ files = [n \in NodeIDs |-> [id \in CallIDs |-> NoFile]]
    /\ metadata = [id \in ObjectIDs |-> NoMeta]
    /\ req = [c \in Clients |-> IdleReq(NoResult)]
    /\ heal = [c \in Clients |-> IdleHeal]
    /\ serving = FALSE
    /\ deletes = 0
    /\ storeFailures = 0
    /\ copyFailures = 0
    /\ healFaults = 0
    /\ log = <<>>

\* HashRing.AddNode
RingAddNode(nodeID) ==
    /\ ~serving
    /\ Len(hr.sortedHashes) + VirtualNodes <= MaxRingEntries
    /\ hr' = AddNode(hr, nodeID)
    /\ UNCHANGED <<hashTable, storeVars, lockVars>>

\* HashRing.RemoveNode
RingRemoveNode(nodeID) ==
    /\ ~serving
    /\ hr' = RemoveNode(hr, nodeID)
    /\ UNCHANGED <<hashTable, storeVars, lockVars>>

\* Manager.AddNode: takes Manager.mu exclusively.
ManagerAddNode(nodeID) ==
    /\ ~serving
    /\ nodeID \in hr.nodes
    /\ ~ManagerReadLocked
    /\ mgrNodes' = mgrNodes \cup {nodeID}
    /\ UNCHANGED <<ringVars, lockVars, log, files, metadata, req, heal, deletes, storeFailures, copyFailures, serving, healFaults>>

\* main: the nodes are set up, the HTTP server starts to serve requests.
StartServing ==
    /\ ~serving
    /\ serving' = TRUE
    /\ UNCHANGED <<ringVars, lockVars, log, mgrNodes, files, metadata, req, heal, deletes, storeFailures, copyFailures, healFaults>>

\* main: the loop creates node1, node2, ... in this order; node number i joins
\* the ring once the i-1 nodes before it are in the ring.
MainRingAddNode(i) ==
    /\ NodeCount(hr) = i - 1
    /\ RingAddNode(NodeOrder[i])

\* main: node number i is registered with the manager after it joined the
\* ring and after the i-1 nodes before it.
MainManagerAddNode(i) ==
    /\ Cardinality(mgrNodes) = i - 1
    /\ ManagerAddNode(NodeOrder[i])

\* Node.Delete called directly on a node (a blob lost behind the manager).
DeleteBlob(n, id) ==
    /\ deletes + storeFailures + copyFailures < MaxFaults
    /\ ~NodeWriteLocked(n)
    /\ Exists(n, id)
    /\ files' = [files EXCEPT ![n][id] = NoFile]
    /\ req' = Unlinked(req, n, id)
    /\ heal' = Unlinked(heal, n, id)
    /\ deletes' = deletes + 1
    /\ UNCHANGED <<ringVars, lockVars, log, mgrNodes, metadata, storeFailures, copyFailures, serving, healFaults>>

\* Node.Delete called directly on the node that holds the last blob of id,
\* while a self-heal run that has replicated id is about to re-query
\* CheckReplicas.
DeleteBlobDuringHeal(n, id) ==
    /\ healFaults < MaxHealFaults
    /\ CheckReplicas(id) = {n}
    /\ \E c \in Clients : heal[c].pc = "save" /\ heal[c].id = id /\ heal[c].replicated > 0
    /\ ~NodeWriteLocked(n)
    /\ Exists(n, id)
    /\ files' = [files EXCEPT ![n][id] = NoFile]
    /\ req' = Unlinked(req, n, id)
    /\ heal' = Unlinked(heal, n, id)
    /\ deletes' = deletes + 1
    /\ healFaults' = healFaults + 1
    /\ UNCHANGED <<ringVars, lockVars, log, mgrNodes, metadata, storeFailures, copyFailures, serving>>

\* ------------------------------------------------------------ upload
\* pc after the target at position i is done: the next target, or the end of
\* the loop over targetNodes.
AfterTarget(targets, i) == IF i + 1 > Len(targets) THEN "finish" ELSE "store"

\* UploadStart without StoreObject's check for an empty target list.
UploadStartNoEmptyCheck(c, data) ==
    /\ serving
    /\ req[c].pc = "idle"
    /\ heal[c].pc = "idle"
    /\ LET id == GenerateObjectID(data)
           targets == GetNodes(hr, id, Replication)
       IN req' = [req EXCEPT ![c] =
              IF MetadataExists(id)
              THEN IdleReq(Result("upload", 200, "", id, MetadataGet(id).replicas, <<>>))
              ELSE [IdleReq(NoResult) EXCEPT
                       !.pc = IF Len(targets) = 0 THEN "finish" ELSE "store",
                       !.id = id, !.data = data, !.targets = targets, !.i = 1]]
    /\ UNCHANGED <<ringVars, lockVars, log, mgrNodes, files, metadata, heal, deletes, storeFailures, copyFailures, serving, healFaults>>

\* UploadStart without the handler's check for an existing metadata record.
UploadStartNoExistsCheck(c, data) ==
    /\ serving
    /\ req[c].pc = "idle"
    /\ heal[c].pc = "idle"
    /\ LET id == GenerateObjectID(data)
           targets == GetNodes(hr, id, Replication)
       IN req' = [req EXCEPT ![c] =
              IF Len(targets) = 0
              THEN IdleReq(Result("upload", 500, "no storage nodes available", id, <<>>, <<>>))
              ELSE [IdleReq(NoResult) EXCEPT !.pc = "store", !.id = id, !.data = data,
                                             !.targets = targets, !.i = 1]]
    /\ UNCHANGED <<ringVars, lockVars, log, mgrNodes, files, metadata, heal, deletes, storeFailures, copyFailures, serving, healFaults>>

\* UploadHandler from GenerateObjectID to StoreObject's call of GetNodes.
UploadStart(c, data) ==
    /\ serving
    /\ req[c].pc = "idle"
    /\ heal[c].pc = "idle"
    /\ LET id == GenerateObjectID(data)
           targets == GetNodes(hr, id, Replication)
       IN req' = [req EXCEPT ![c] =
              IF MetadataExists(id)
              THEN IdleReq(Result("upload", 200, "", id, MetadataGet(id).replicas, <<>>))
              ELSE IF Len(targets) = 0
              THEN IdleReq(Result("upload", 500, "no storage nodes available", id, <<>>, <<>>))
              ELSE [IdleReq(NoResult) EXCEPT !.pc = "store", !.id = id, !.data = data,
                                             !.targets = targets, !.i = 1]]
    /\ UNCHANGED <<ringVars, lockVars, log, mgrNodes, files, metadata, heal, deletes, storeFailures, copyFailures, serving, healFaults>>

\* StoreObject: the target is not registered with the manager.
UploadSkipTarget(c) ==
    LET r == req[c] IN
    /\ r.pc = "store"
    /\ r.targets[r.i] \notin mgrNodes
    /\ req' = [req EXCEPT ![c] = [r EXCEPT !.pc = AfterTarget(r.targets, r.i),
                                           !.i = r.i + 1,
                                           !.outcomes = Append(r.outcomes, "skip")]]
    /\ UNCHANGED <<ringVars, lockVars, log, mgrNodes, files, metadata, heal, deletes, storeFailures, copyFailures, serving, healFaults>>

\* Node.Store up to os.Create: the lock is taken and the file is created empty
\* or truncated.
UploadStoreBegin(c) ==
    LET r == req[c] IN
    /\ r.pc = "store"
    /\ r.targets[r.i] \in mgrNodes
    /\ ~NodeWriteLocked(r.targets[r.i])
    /\ files' = [files EXCEPT ![r.targets[r.i]][r.id] = File(<<>>)]
    /\ req' = [req EXCEPT ![c].pc = "copy"]
    /\ UNCHANGED <<ringVars, lockVars, log, mgrNodes, metadata, heal, deletes, storeFailures, copyFailures, serving, healFaults>>

\* Node.Store fails in os.MkdirAll or os.Create: the node is left as it was.
UploadStoreCreateFails(c) ==
    LET r == req[c] IN
    /\ r.pc = "store"
    /\ r.targets[r.i] \in mgrNodes
    /\ ~NodeWriteLocked(r.targets[r.i])
    /\ deletes + storeFailures + copyFailures < MaxFaults
    /\ storeFailures' = storeFailures + 1
    /\ req' = [req EXCEPT ![c] = [r EXCEPT !.pc = AfterTarget(r.targets, r.i),
                                           !.i = r.i + 1,
                                           !.outcomes = Append(r.outcomes, "fail")]]
    /\ UNCHANGED <<ringVars, lockVars, log, mgrNodes, files, metadata, heal, deletes, copyFailures, serving, healFaults>>

\* Node.Store from io.Copy to its return, and StoreObject's append.
UploadStoreCopy(c) ==
    LET r == req[c] IN
    /\ r.pc = "copy"
    /\ files' = [files EXCEPT ![r.targets[r.i]][r.id] = File(r.data)]
    /\ req' = [req EXCEPT ![c] =
                  [r EXCEPT !.pc = AfterTarget(r.targets, r.i),
                            !.i = r.i + 1,
                            !.replicatedNodes = Append(r.replicatedNodes, r.targets[r.i]),
                            !.outcomes = Append(r.outcomes, "ok")]]
    /\ UNCHANGED <<ringVars, lockVars, log, mgrNodes, metadata, heal, deletes, storeFailures, copyFailures, serving, healFaults>>

\* io.Copy fails: Node.Store removes the file and returns the error.
UploadStoreCopyFails(c) ==
    LET r == req[c]
        n == r.targets[r.i]
    IN
    /\ r.pc = "copy"
    /\ deletes + storeFailures + copyFailures < MaxFaults
    /\ copyFailures' = copyFailures + 1
    /\ files' = [files EXCEPT ![n][r.id] = NoFile]
    /\ req' = [Unlinked(req, n, r.id) EXCEPT ![c] =
                  [r EXCEPT !.pc = AfterTarget(r.targets, r.i),
                            !.i = r.i + 1,
                            !.outcomes = Append(r.outcomes, "fail")]]
    /\ heal' = Unlinked(heal, n, r.id)
    /\ UNCHANGED <<ringVars, lockVars, log, mgrNodes, metadata, deletes, storeFailures, serving, healFaults>>

\* UploadFinish without StoreObject's check for an empty replica list.
UploadFinishNoCheck(c) ==
    LET r == req[c]
        meta == [id |-> r.id, size |-> Len(r.data), createdAt |-> IF MetadataExists(r.id) THEN 2 ELSE 1,
                 replicas |-> r.replicatedNodes]
    IN
    /\ r.pc = "finish"
    /\ metadata' = MetadataSave(meta)
    /\ heal' = [heal EXCEPT ![c] = SpawnHeal(r.id, meta)]
    /\ req' = [req EXCEPT ![c] =
                  [IdleReq(Result("upload", 201, "", r.id, r.replicatedNodes, <<>>))
                      EXCEPT !.targets = r.targets, !.outcomes = r.outcomes]]
    /\ UNCHANGED <<ringVars, lockVars, log, mgrNodes, files, deletes, storeFailures, copyFailures, serving, healFaults>>

\* StoreObject returns; UploadHandler builds the metadata, saves it, starts
\* the self-heal goroutine and responds.  CreatedAt is time.Now(): the instant
\* of this upload, which no other upload shares; 1 names the instant of the
\* upload that stores the first record of the id, 2 a later one.
UploadFinish(c) ==
    LET r == req[c]
        meta == [id |-> r.id, size |-> Len(r.data), createdAt |-> IF MetadataExists(r.id) THEN 2 ELSE 1,
                 replicas |-> r.replicatedNodes]
    IN
    /\ r.pc = "finish"
    /\ IF Len(r.replicatedNodes) = 0
       THEN /\ req' = [req EXCEPT ![c] =
                          [IdleReq(Result("upload", 500, "failed to store object on any node",
                                          r.id, <<>>, <<>>))
                              EXCEPT !.targets = r.targets, !.outcomes = r.outcomes]]
            /\ UNCHANGED <<metadata, heal>>
       ELSE /\ metadata' = MetadataSave(meta)
            /\ heal' = [heal EXCEPT ![c] = SpawnHeal(r.id, meta)]
                    /\ req' = [req EXCEPT ![c] =
                          [IdleReq(Result("upload", 201, "", r.id, r.replicatedNodes, <<>>))
                              EXCEPT !.targets = r.targets, !.outcomes = r.outcomes]]
    /\ UNCHANGED <<ringVars, lockVars, log, mgrNodes, files, deletes, storeFailures, copyFailures, serving, healFaults>>

\* ------------------------------------------------------- reads
\* GetMetadataHandler: the metadata is absent.
GetMetadataNotFound(c, id) ==
    /\ serving
    /\ req[c].pc = "idle"
    /\ ~MetadataExists(id)
    /\ req' = [req EXCEPT ![c] = IdleReq(Result("getMetadata", 404, "", id, <<>>, <<>>))]
    /\ UNCHANGED <<ringVars, lockVars, log, mgrNodes, files, metadata, heal, deletes, storeFailures, copyFailures, serving, healFaults>>

\* GetMetadataHandler: CheckReplicas, and self-heal when replicas are missing.
GetMetadata(c, id) ==
    /\ serving
    /\ req[c].pc = "idle"
    /\ heal[c].pc = "idle"
    /\ MetadataExists(id)
    /\ ~CheckBlocked
    /\ \E availableReplicas \in Orderings(CheckReplicas(id)) :
          LET meta == [MetadataGet(id) EXCEPT !.replicas = availableReplicas]
          IN /\ heal' = [heal EXCEPT ![c] =
                            IF Len(availableReplicas) < Replication
                            THEN SpawnHeal(id, meta) ELSE IdleHeal]
             /\ req' = [req EXCEPT ![c] =
                            IdleReq(Result("getMetadata", 200, "", id, availableReplicas, <<>>))]
    /\ UNCHANGED <<ringVars, lockVars, log, mgrNodes, files, metadata, deletes, storeFailures, copyFailures, serving, healFaults>>

\* GetObjectHandler up to the return of RetrieveObject.
GetObject(c, id) ==
    /\ serving
    /\ req[c].pc = "idle"
    /\ ~RetrieveBlocked(id)
    /\ req' = [req EXCEPT ![c] =
                  IF RetrieveObject(id) = NoNode
                  THEN IdleReq(Result("getObject", 404, "", id, <<>>, <<>>))
                  ELSE [IdleReq(NoResult) EXCEPT !.pc = "stream", !.id = id,
                            !.reader = OpenReader(RetrieveObject(id), id)]]
    /\ UNCHANGED <<ringVars, lockVars, log, mgrNodes, files, metadata, heal, deletes, storeFailures, copyFailures, serving, healFaults>>

\* GetObjectHandler: io.Copy of the reader to the response.
GetObjectStream(c) ==
    /\ req[c].pc = "stream"
    /\ req' = [req EXCEPT ![c] =
                  IdleReq(Result("getObject", 200, "", req[c].id,
                                 <<req[c].reader.node>>, ReadAll(req[c].reader)))]
    /\ UNCHANGED <<ringVars, lockVars, log, mgrNodes, files, metadata, heal, deletes, storeFailures, copyFailures, serving, healFaults>>

\* ---------------------------------------------------- self-heal
\* pc after the target at position i is done without a successful
\* replication: the next target, or the end of the loop.
AfterHealTarget(targets, i) == IF i + 1 > Len(targets) THEN "save" ELSE "loop"

\* ensureReplication: CheckReplicas, the early return and GetTargetNodes.
HealCheck(c) ==
    LET h == heal[c]
        availableReplicas == CheckReplicas(h.id)
        targets == GetTargetNodes(h.id)
    IN
    /\ h.pc = "check"
    /\ ~CheckBlocked
    /\ heal' = [heal EXCEPT ![c] =
                   IF Cardinality(availableReplicas) >= Replication
                   THEN IdleHeal
                   ELSE [h EXCEPT !.pc = IF Len(targets) = 0 THEN "save" ELSE "loop",
                                  !.availableReplicas = availableReplicas,
                                  !.targets = targets, !.i = 1]]
    /\ UNCHANGED <<ringVars, lockVars, log, mgrNodes, files, metadata, req, deletes, storeFailures, copyFailures, serving, healFaults>>

\* ensureReplication: the target already has the object.
HealSkip(c) ==
    LET h == heal[c] IN
    /\ h.pc = "loop"
    /\ h.targets[h.i] \in h.availableReplicas
    /\ heal' = [heal EXCEPT ![c] = [h EXCEPT !.pc = AfterHealTarget(h.targets, h.i),
                                             !.i = h.i + 1]]
    /\ UNCHANGED <<ringVars, lockVars, log, mgrNodes, files, metadata, req, deletes, storeFailures, copyFailures, serving, healFaults>>

\* HealReplicateOpen without the test that skips the targets observed at the
\* start of the run.
HealReplicateOpenAnyTarget(c) ==
    LET h == heal[c]
        source == RetrieveObject(h.id)
    IN
    /\ h.pc = "loop"
    /\ ~RetrieveBlocked(h.id)
    /\ heal' = [heal EXCEPT ![c] =
                   IF source = NoNode \/ h.targets[h.i] \notin mgrNodes
                   THEN [h EXCEPT !.pc = AfterHealTarget(h.targets, h.i), !.i = h.i + 1]
                   ELSE [h EXCEPT !.pc = "storeBegin", !.reader = OpenReader(source, h.id)]]
    /\ UNCHANGED <<ringVars, lockVars, log, mgrNodes, files, metadata, req, deletes, storeFailures, copyFailures, serving, healFaults>>

\* ReplicateObject: RetrieveObject and the lookup of the target node.
HealReplicateOpen(c) ==
    LET h == heal[c]
        source == RetrieveObject(h.id)
    IN
    /\ h.pc = "loop"
    /\ h.targets[h.i] \notin h.availableReplicas
    /\ ~RetrieveBlocked(h.id)
    /\ heal' = [heal EXCEPT ![c] =
                   IF source = NoNode \/ h.targets[h.i] \notin mgrNodes
                   THEN [h EXCEPT !.pc = AfterHealTarget(h.targets, h.i), !.i = h.i + 1]
                   ELSE [h EXCEPT !.pc = "storeBegin", !.reader = OpenReader(source, h.id)]]
    /\ UNCHANGED <<ringVars, lockVars, log, mgrNodes, files, metadata, req, deletes, storeFailures, copyFailures, serving, healFaults>>

\* ReplicateObject: Node.Store on the target up to os.Create.
HealStoreBegin(c) ==
    LET h == heal[c] IN
    /\ h.pc = "storeBegin"
    /\ ~NodeWriteLocked(h.targets[h.i])
    /\ files' = [files EXCEPT ![h.targets[h.i]][h.id] = File(<<>>)]
    /\ heal' = [heal EXCEPT ![c].pc = "copy"]
    /\ UNCHANGED <<ringVars, lockVars, log, mgrNodes, metadata, req, deletes, storeFailures, copyFailures, serving, healFaults>>

\* ReplicateObject: Node.Store fails in os.MkdirAll or os.Create.
HealStoreCreateFails(c) ==
    LET h == heal[c] IN
    /\ h.pc = "storeBegin"
    /\ ~NodeWriteLocked(h.targets[h.i])
    /\ healFaults < MaxHealFaults
    /\ healFaults' = healFaults + 1
    /\ heal' = [heal EXCEPT ![c] = [h EXCEPT !.pc = AfterHealTarget(h.targets, h.i),
                                             !.i = h.i + 1, !.reader = NoReader]]
    /\ UNCHANGED <<ringVars, lockVars, log, mgrNodes, files, metadata, req, deletes, storeFailures, copyFailures, serving>>

\* ReplicateObject: io.Copy from the source reader into the target file, the
\* return of Node.Store, and ensureReplication's count and break.
HealStoreCopy(c) ==
    LET h == heal[c]
        enough == Cardinality(h.availableReplicas) + h.replicated + 1 >= Replication
    IN
    /\ h.pc = "copy"
    /\ files' = [files EXCEPT ![h.targets[h.i]][h.id] = File(ReadAll(h.reader))]
    /\ heal' = [heal EXCEPT ![c] =
                   [h EXCEPT !.pc = IF enough THEN "save" ELSE AfterHealTarget(h.targets, h.i),
                             !.i = IF enough THEN h.i ELSE h.i + 1,
                             !.replicated = h.replicated + 1,
                             !.reader = NoReader]]
    /\ UNCHANGED <<ringVars, lockVars, log, mgrNodes, metadata, req, deletes, storeFailures, copyFailures, serving, healFaults>>

\* ReplicateObject: io.Copy fails, Node.Store removes the target file.
HealStoreCopyFails(c) ==
    LET h == heal[c]
        n == h.targets[h.i]
    IN
    /\ h.pc = "copy"
    /\ healFaults < MaxHealFaults
    /\ healFaults' = healFaults + 1
    /\ files' = [files EXCEPT ![n][h.id] = NoFile]
    /\ req' = Unlinked(req, n, h.id)
    /\ heal' = [Unlinked(heal, n, h.id) EXCEPT ![c] =
                   [h EXCEPT !.pc = AfterHealTarget(h.targets, h.i),
                             !.i = h.i + 1, !.reader = NoReader]]
    /\ UNCHANGED <<ringVars, lockVars, log, mgrNodes, metadata, deletes, storeFailures, copyFailures, serving>>

\* ensureReplication: after the loop, the metadata is saved with a fresh
\* CheckReplicas when something was replicated.
HealFinish(c) ==
    LET h == heal[c] IN
    /\ h.pc = "save"
    /\ IF h.replicated > 0
       THEN /\ ~CheckBlocked
            /\ \E updatedReplicas \in Orderings(CheckReplicas(h.id)) :
                  metadata' = MetadataSave([h.meta EXCEPT !.replicas = updatedReplicas])
       ELSE UNCHANGED metadata
    /\ heal' = [heal EXCEPT ![c] = IdleHeal]
    /\ UNCHANGED <<ringVars, lockVars, log, mgrNodes, files, req, deletes, storeFailures, copyFailures, serving, healFaults>>

\* ------------------------------------------------------ direct calls
\* One call made on a node or on the manager and what it returned.
Call(op, node, id, arg, err, found, nodes, bytes, size) ==
    [op |-> op, node |-> node, id |-> id, arg |-> arg, err |-> err, found |-> found,
     nodes |-> nodes, bytes |-> bytes, size |-> size]

\* objectID[0:2] and objectID[2:4]: slicing beyond the end of the string panics.
PathPanics(id) == IdLen(id) < 4

\* How a Node.Store call ends: it returns nil, os.Create fails, or io.Copy
\* fails and the file is removed.
StoreOutcomes == {"", "failed to create object file", "failed to write object data"}

\* Node.Store that leaves the file it created when the copy fails.
StoreInKeepsPartial(fs, n, id, b, outcome) ==
    IF outcome = "" THEN [fs EXCEPT ![n][id] = File(b)]
    ELSE IF outcome = "failed to write object data" THEN [fs EXCEPT ![n][id] = File(<<>>)]
    ELSE fs

\* Node.Store on the files fs: the files after the call.
StoreIn(fs, n, id, b, outcome) ==
    IF outcome = "" THEN [fs EXCEPT ![n][id] = File(b)]
    ELSE IF outcome = "failed to write object data" THEN [fs EXCEPT ![n][id] = NoFile]
    ELSE fs

\* Node.Store that keeps the bytes of a blob that is already there.
NodeStoreKeepsOld(n, id, b, outcome) ==
    IF outcome = "" /\ ~Exists(n, id) THEN [files EXCEPT ![n][id] = File(b)]
    ELSE IF outcome = "failed to write object data" THEN [files EXCEPT ![n][id] = NoFile]
    ELSE files

\* Node.Store: the files after the call.
NodeStore(n, id, b, outcome) == StoreIn(files, n, id, b, outcome)

\* Node.Delete that reports a missing blob as an error.
NodeDeleteStrict(n, id) ==
    [files |-> [files EXCEPT ![n][id] = NoFile],
     err |-> IF Exists(n, id) THEN "" ELSE "failed to delete object"]

\* Node.Delete: the files after the call and the error returned
\* (os.IsNotExist is not an error).
NodeDelete(n, id) ==
    [files |-> [files EXCEPT ![n][id] = NoFile], err |-> ""]

\* Node.Retrieve followed by io.ReadAll of the reader.
Retrieve(n, id) ==
    IF Exists(n, id) THEN [err |-> "", bytes |-> files[n][id].bytes]
    ELSE [err |-> "object not found", bytes |-> <<>>]

\* Node.GetSize
GetSize(n, id) ==
    IF Exists(n, id) THEN [err |-> "", size |-> Len(files[n][id].bytes)]
    ELSE [err |-> "object not found", size |-> 0]

\* A panic ends the test program.
Crashed == \E i \in 1..Len(log) : log[i].err = "panic"

CanCall == Len(log) < MaxCalls /\ ~Crashed

Panic(op, n, id, arg) == Call(op, n, id, arg, "panic", FALSE, <<>>, <<>>, 0)

\* node.Store(objectID, bytes.NewReader(b))
CallStore(n, id, b, outcome) ==
    /\ CanCall
    /\ IF PathPanics(id)
       THEN /\ outcome = ""
            /\ log' = Append(log, Panic("Store", n, id, b))
            /\ files' = files
       ELSE /\ files' = NodeStore(n, id, b, outcome)
            /\ log' = Append(log, Call("Store", n, id, b, outcome, FALSE, <<>>, <<>>, 0))
    /\ UNCHANGED <<ringVars, lockVars, mgrNodes, metadata, req, heal, serving, deletes, storeFailures, copyFailures, healFaults>>

\* node.Delete(objectID)
CallDelete(n, id) ==
    /\ CanCall
    /\ IF PathPanics(id)
       THEN /\ log' = Append(log, Panic("Delete", n, id, <<>>))
            /\ files' = files
       ELSE /\ files' = NodeDelete(n, id).files
            /\ log' = Append(log, Call("Delete", n, id, <<>>, NodeDelete(n, id).err, FALSE, <<>>, <<>>, 0))
    /\ UNCHANGED <<ringVars, lockVars, mgrNodes, metadata, req, heal, serving, deletes, storeFailures, copyFailures, healFaults>>

\* node.Exists(objectID)
CallExists(n, id) ==
    /\ CanCall
    /\ log' = Append(log, IF PathPanics(id) THEN Panic("Exists", n, id, <<>>)
                          ELSE Call("Exists", n, id, <<>>, "", Exists(n, id), <<>>, <<>>, 0))
    /\ UNCHANGED <<ringVars, lockVars, mgrNodes, files, metadata, req, heal, serving, deletes, storeFailures, copyFailures, healFaults>>

\* node.Retrieve(objectID) and io.ReadAll of its reader
CallRetrieve(n, id) ==
    /\ CanCall
    /\ log' = Append(log, IF PathPanics(id) THEN Panic("Retrieve", n, id, <<>>)
                          ELSE Call("Retrieve", n, id, <<>>, Retrieve(n, id).err, FALSE, <<>>,
                                    Retrieve(n, id).bytes, 0))
    /\ UNCHANGED <<ringVars, lockVars, mgrNodes, files, metadata, req, heal, serving, deletes, storeFailures, copyFailures, healFaults>>

\* node.GetSize(objectID)
CallGetSize(n, id) ==
    /\ CanCall
    /\ log' = Append(log, IF PathPanics(id) THEN Panic("GetSize", n, id, <<>>)
                          ELSE Call("GetSize", n, id, <<>>, GetSize(n, id).err, FALSE, <<>>,
                                    <<>>, GetSize(n, id).size))
    /\ UNCHANGED <<ringVars, lockVars, mgrNodes, files, metadata, req, heal, serving, deletes, storeFailures, copyFailures, healFaults>>

\* The manager test programs keep the last two calls.
LogCall(rec) == IF Len(log) < 2 THEN Append(log, rec) ELSE <<log[2], rec>>

\* node.Store called directly on a node with the bytes of id.
DirectStore(n, id) ==
    /\ files' = NodeStore(n, id, DataOf(id), "")
    /\ log' = <<>>
    /\ UNCHANGED <<ringVars, lockVars, mgrNodes, metadata, req, heal, serving, deletes, storeFailures, copyFailures, healFaults>>

\* node.Delete called directly on a node.
DirectDelete(n, id) ==
    /\ Exists(n, id)
    /\ files' = NodeDelete(n, id).files
    /\ log' = <<>>
    /\ UNCHANGED <<ringVars, lockVars, mgrNodes, metadata, req, heal, serving, deletes, storeFailures, copyFailures, healFaults>>

\* StoreObject's loop over the targets from position i on, run without
\* interruption: fs are the files and done the achieved list so far,
\* outcomes[i] is how Node.Store ends on target i.
RECURSIVE StoreLoop(_, _, _, _, _, _, _)
StoreLoop(fs, done, targets, id, data, outcomes, i) ==
    IF i > Len(targets) THEN [files |-> fs, replicatedNodes |-> done]
    ELSE IF targets[i] \notin mgrNodes
         THEN StoreLoop(fs, done, targets, id, data, outcomes, i + 1)
    ELSE StoreLoop(StoreIn(fs, targets[i], id, data, outcomes[i]),
                   IF outcomes[i] = "" THEN Append(done, targets[i]) ELSE done,
                   targets, id, data, outcomes, i + 1)

\* manager.StoreObject(GenerateObjectID(data), data, len(data))
CallStoreObject(data) ==
    LET id == GenerateObjectID(data)
        targets == GetNodes(hr, id, Replication)
    IN /\ \E outcomes \in [1..Len(targets) -> StoreOutcomes] :
             LET end == StoreLoop(files, <<>>, targets, id, data, outcomes, 1)
                 err == IF Len(targets) = 0 THEN "no storage nodes available"
                        ELSE IF Len(end.replicatedNodes) = 0
                             THEN "failed to store object on any node"
                        ELSE ""
             IN /\ files' = end.files
                /\ log' = LogCall(Call("StoreObject", NoNode, id, data, err, FALSE,
                                        end.replicatedNodes, <<>>, 0))
       /\ UNCHANGED <<ringVars, lockVars, mgrNodes, metadata, req, heal, serving, deletes, storeFailures, copyFailures, healFaults>>

\* manager.RetrieveObject(id) and io.ReadAll of its reader
CallRetrieveObject(id) ==
    /\ log' = LogCall(LET n == RetrieveObject(id)
                      IN IF n = NoNode
                         THEN Call("RetrieveObject", NoNode, id, <<>>,
                                   "object not found on any available node", FALSE, <<>>, <<>>, 0)
                         ELSE Call("RetrieveObject", n, id, <<>>, "", TRUE, <<>>,
                                   files[n][id].bytes, 0))
    /\ UNCHANGED <<ringVars, lockVars, mgrNodes, files, metadata, req, heal, serving, deletes, storeFailures, copyFailures, healFaults>>

\* manager.CheckReplicas(id): the nodes in the order the map iteration yields.
CallCheckReplicas(id) ==
    /\ \E nodes \in Orderings(CheckReplicas(id)) :
          log' = LogCall(Call("CheckReplicas", NoNode, id, <<>>, "", FALSE, nodes, <<>>, 0))
    /\ UNCHANGED <<ringVars, lockVars, mgrNodes, files, metadata, req, heal, serving, deletes, storeFailures, copyFailures, healFaults>>

\* ------------------------------------------------------ specifications
InitRing ==
    /\ hashTable \in [HashInputs -> HashSpace]
    /\ hr = NewHashRing
    /\ InitStore
    /\ InitLocks

NextRing ==
    \/ \E nodeID \in NodeIDs : RingAddNode(nodeID)
    \/ \E nodeID \in NodeIDs : RingRemoveNode(nodeID)

\* The hash ring alone, under every hash table.
SpecRing == InitRing /\ [][NextRing]_vars

\* The hash tables the whole store is explored under: the object keys hash to
\* 0, node1 to 1 and node3 to HashMax; node2 either collides with node1 or lies
\* between the two.
StoreHashTables ==
    {t \in [HashInputs -> HashSpace] :
        /\ \A id \in ObjectIDs : t[id] = 0
        /\ \A i \in 0..(VirtualNodes - 1) :
              /\ t[VirtualKey("node1", i)] = 1
              /\ t[VirtualKey("node2", i)] \in {1, 2}
              /\ t[VirtualKey("node3", i)] = HashMax}

Init ==
    /\ hashTable \in StoreHashTables
    /\ hr = NewHashRing
    /\ InitStore
    /\ InitLocks

Next ==
    \/ \E i \in 1..Len(NodeOrder) : MainRingAddNode(i)
    \/ \E i \in 1..Len(NodeOrder) : MainManagerAddNode(i)
    \/ StartServing
    \/ \E n \in NodeIDs, id \in ObjectIDs : DeleteBlob(n, id)
    \/ \E n \in NodeIDs, id \in ObjectIDs : DeleteBlobDuringHeal(n, id)
    \/ \E c \in Clients, data \in Blobs : UploadStart(c, data)
    \/ \E c \in Clients : UploadSkipTarget(c)
    \/ \E c \in Clients : UploadStoreBegin(c)
    \/ \E c \in Clients : UploadStoreCreateFails(c)
    \/ \E c \in Clients : UploadStoreCopy(c)
    \/ \E c \in Clients : UploadStoreCopyFails(c)
    \/ \E c \in Clients : UploadFinish(c)
    \/ \E c \in Clients, id \in ObjectIDs : GetMetadataNotFound(c, id)
    \/ \E c \in Clients, id \in ObjectIDs : GetMetadata(c, id)
    \/ \E c \in Clients, id \in ObjectIDs : GetObject(c, id)
    \/ \E c \in Clients : GetObjectStream(c)
    \/ \E c \in Clients : HealCheck(c)
    \/ \E c \in Clients : HealSkip(c)
    \/ \E c \in Clients : HealReplicateOpen(c)
    \/ \E c \in Clients : HealStoreBegin(c)
    \/ \E c \in Clients : HealStoreCreateFails(c)
    \/ \E c \in Clients : HealStoreCopy(c)
    \/ \E c \in Clients : HealStoreCopyFails(c)
    \/ \E c \in Clients : HealFinish(c)

\* The whole store: membership changes, uploads, reads, self-heal and faults.
Spec == Init /\ [][Next]_vars

\* The client that uploads and the client that reads in SpecRead.
Uploader == 1
Reader == 2

\* A step of the request handler that is running for client c.
HandlerStep(c) ==
    \/ UploadSkipTarget(c)
    \/ UploadStoreBegin(c)
    \/ UploadStoreCopy(c)
    \/ UploadFinish(c)
    \/ GetObjectStream(c)

\* A step of the ensureReplication goroutine spawned for client c.
HealStep(c) ==
    \/ HealCheck(c)
    \/ HealSkip(c)
    \/ HealReplicateOpen(c)
    \/ HealStoreBegin(c)
    \/ HealStoreCopy(c)
    \/ HealFinish(c)

NextRead ==
    \/ \E i \in 1..Len(NodeOrder) : MainRingAddNode(i)
    \/ \E i \in 1..Len(NodeOrder) : MainManagerAddNode(i)
    \/ StartServing
    \/ \E n \in NodeIDs, id \in ObjectIDs : DeleteBlob(n, id)
    \/ \E data \in Blobs : UploadStart(Uploader, data)
    \/ \E id \in ObjectIDs : GetMetadata(Reader, id)
    \/ \E id \in ObjectIDs : GetObject(Reader, id)
    \/ \E c \in Clients : HandlerStep(c)
    \/ \E c \in Clients : HealStep(c)

\* Every handler and every goroutine that is running is scheduled again
\* (the Go runtime); no client has to send a further request and no fault
\* has to happen.
FairRead ==
    \A c \in Clients : WF_vars(HandlerStep(c)) /\ WF_vars(HealStep(c))

\* One client uploads, one reads objects and metadata; blobs get deleted
\* behind the manager; no write fails.
SpecRead == Init /\ [][NextRead]_vars /\ FairRead

NextLocks ==
    \/ \E t \in LockThreads, op \in LockOps : OpStart(t, op)
    \/ \E t \in LockThreads : OpRLock(t)
    \/ \E t \in LockThreads : OpRUnlock(t)
    \/ \E t \in LockThreads : OpLockAnnounce(t)
    \/ \E t \in LockThreads : OpLockAcquire(t)
    \/ \E t \in LockThreads : OpUnlock(t)
    \/ \E t \in LockThreads : OpReturn(t)

\* The locking of the manager and ring operations run concurrently, one
\* operation per thread.
SpecLocks == Init /\ [][NextLocks]_vars

\* Manager.ReplicateObject(objectID, targetNodeID) run alone: RetrieveObject
\* opens the source, the target is looked up, Node.Store creates the target's
\* file with os.Create and io.Copy then reads the source through the open
\* reader.  The files after the call, the error and the source node.
ReplicateObject(id, t) ==
    LET source == RetrieveObject(id)
        created == StoreIn(files, t, id, <<>>, "")
    IN IF source = NoNode
       THEN [files |-> files, err |-> "failed to retrieve object for replication", source |-> NoNode]
       ELSE IF t \notin mgrNodes
       THEN [files |-> files, err |-> "target node not found", source |-> source]
       ELSE [files |-> StoreIn(created, t, id, created[source][id].bytes, ""),
             err |-> "", source |-> source]

\* manager.ReplicateObject(id, t)
CallReplicateObject(id, t) ==
    LET r == ReplicateObject(id, t) IN
    /\ files' = r.files
    /\ log' = LogCall(Call("ReplicateObject", t, id, <<>>, r.err, r.err = "",
                           <<r.source>>, <<>>, 0))
    /\ UNCHANGED <<ringVars, lockVars, mgrNodes, metadata, req, heal, serving, deletes, storeFailures, copyFailures, healFaults>>

NextNode ==
    \/ \E n \in TestNodes, id \in CallIDs, b \in NodeBlobs, outcome \in StoreOutcomes :
          CallStore(n, id, b, outcome)
    \/ \E n \in TestNodes, id \in CallIDs : CallDelete(n, id)
    \/ \E n \in TestNodes, id \in CallIDs : CallExists(n, id)
    \/ \E n \in TestNodes, id \in CallIDs : CallRetrieve(n, id)
    \/ \E n \in TestNodes, id \in CallIDs : CallGetSize(n, id)

\* A test program that calls one storage node, one call after the other.
SpecNode == Init /\ [][NextNode]_vars

NextManager ==
    \/ \E i \in 1..Len(NodeOrder) : MainRingAddNode(i)
    \/ \E i \in 1..Len(NodeOrder) : MainManagerAddNode(i)
    \/ \E n \in NodeIDs, id \in ObjectIDs : DirectStore(n, id)
    \/ \E n \in NodeIDs, id \in ObjectIDs : DirectDelete(n, id)
    \/ \E data \in Blobs : CallStoreObject(data)
    \/ \E id \in ObjectIDs : CallRetrieveObject(id)
    \/ \E id \in ObjectIDs : CallCheckReplicas(id)
    \/ \E id \in ObjectIDs, t \in NodeIDs : CallReplicateObject(id, t)

\* A test program that sets up the ring and the manager, puts blobs on the
\* nodes and removes them, and calls the manager, one call after the other.
SpecManager == Init /\ [][NextManager]_vars

\* A handler starts go s.ensureReplication(objectID, meta) with the descriptor
\* of the object and the replica list it has just computed.
StartEnsureReplication(c, id) ==
    /\ heal[c].pc = "idle"
    /\ \E replicas \in Orderings(CheckReplicas(id)) :
          heal' = [heal EXCEPT ![c] =
                      SpawnHeal(id, [id |-> id, size |-> Len(DataOf(id)),
                                     createdAt |-> 1, replicas |-> replicas])]
    /\ UNCHANGED <<ringVars, lockVars, log, mgrNodes, files, metadata, req, deletes, storeFailures, copyFailures, serving, healFaults>>

\* No ensureReplication run is under way.
HealIdle == \A c \in Clients : heal[c].pc = "idle"

NextHeal ==
    \/ \E i \in 1..Len(NodeOrder) : HealIdle /\ MainRingAddNode(i)
    \/ \E i \in 1..Len(NodeOrder) : HealIdle /\ MainManagerAddNode(i)
    \/ \E n \in NodeIDs, id \in ObjectIDs : HealIdle /\ DirectStore(n, id)
    \/ \E n \in NodeIDs, id \in ObjectIDs : HealIdle /\ DirectDelete(n, id)
    \/ \E c \in Clients, id \in ObjectIDs : StartEnsureReplication(c, id)
    \/ \E c \in Clients : HealStep(c)
    \/ \E c \in Clients : HealStoreCreateFails(c)
    \/ \E c \in Clients : HealStoreCopyFails(c)

\* Blobs are put on the nodes and removed between the ensureReplication runs,
\* and the membership grows between them.
SpecHeal == Init /\ [][NextHeal]_vars

NextMembership ==
    \/ \E i \in 1..Len(NodeOrder) : MainRingAddNode(i)
    \/ \E i \in 1..Len(NodeOrder) : MainManagerAddNode(i)
    \/ \E nodeID \in NodeIDs : RingRemoveNode(nodeID)
    \/ \E n \in NodeIDs, id \in ObjectIDs : DirectStore(n, id)
    \/ \E n \in NodeIDs, id \in ObjectIDs : DirectDelete(n, id)
    \/ \E id \in ObjectIDs : CallCheckReplicas(id)
    \/ \E id \in ObjectIDs : CallRetrieveObject(id)

\* Nodes join the ring and the manager and leave the ring again (the manager
\* has no RemoveNode), blobs are put on the nodes and removed, and the manager
\* is asked for the replicas and for the object.
SpecMembership == Init /\ [][NextMembership]_vars

\* ------------------------------------------------------- ring claims
Counts == 0..MaxCount

IsDistinct(s) == \A i, j \in 1..Len(s) : i # j => s[i] # s[j]

\* A ring built from scratch by adding the given nodes in the given order.
RECURSIVE BuildRing(_, _)
BuildRing(order, i) ==
    IF i = 0 THEN NewHashRing ELSE AddNode(BuildRing(order, i - 1), order[i])

\* C6: in every reachable ring state GetNodes(key, count) has no repeated
\* NodeID and its length is exactly min(count, NodeCount), for every key and
\* every count >= 0, also when virtual-node hashes of different nodes coincide.
C6_DistinctAndLength ==
    \A key \in ObjectIDs, count \in Counts :
        LET got == GetNodes(hr, key, count)
        IN IsDistinct(got) /\ Len(got) = Min(count, NodeCount(hr))

\* C7: GetNodes depends only on the node set: the ring reached by any history
\* of AddNode/RemoveNode answers as every ring built from scratch from the
\* same node set, in whatever order the nodes are added.
C7_PlacementBySetOnly ==
    \A key \in ObjectIDs, count \in Counts :
        \A order \in Orderings(hr.nodes) :
            GetNodes(hr, key, count) = GetNodes(BuildRing(order, Len(order)), key, count)

\* C9: every NodeID GetNodes returns is a current member of the ring: never
\* a removed node, never an ID that was not added (such as the empty string).
C9_OnlyMembers ==
    \A key \in ObjectIDs, count \in Counts :
        Range(GetNodes(hr, key, count)) \subseteq ListNodes(hr)

\* C10: AddNode(x) of a node x not in the ring leaves the first choice
\* GetNodes(key, 1) of every key what it was, or makes it x.
C10_MinimalRedistribution ==
    [][\A x \in NodeIDs :
          (x \notin hr.nodes /\ x \in hr'.nodes) =>
              \A key \in ObjectIDs :
                  \/ GetNodes(hr', key, 1) = GetNodes(hr, key, 1)
                  \/ GetNodes(hr', key, 1) = <<x>>]_vars

\* The ring r answers every GetNodes query as the ring hr does.
SameAnswers(r) ==
    \A key \in ObjectIDs, count \in Counts : GetNodes(r, key, count) = GetNodes(hr, key, count)

\* C21: AddNode(id) of an id in the ring and RemoveNode(id) of an id not in
\* the ring leave the ring as it is: the same virtual entries, the same
\* NodeCount and the same GetNodes result for every key and count.
C21_MembershipNoOps ==
    \A id \in NodeIDs :
        LET r == IF id \in hr.nodes THEN AddNode(hr, id) ELSE RemoveNode(hr, id)
        IN /\ r.sortedHashes = hr.sortedHashes
           /\ r.hashToNode = hr.hashToNode
           /\ NodeCount(r) = NodeCount(hr)
           /\ ListNodes(r) = ListNodes(hr)
           /\ SameAnswers(r)

C21_Witness ==
    /\ hr.nodes = {"node1", "node3"}
    /\ Len(hr.sortedHashes) = 2
    /\ AddNode(hr, "node1") = hr
    /\ RemoveNode(hr, "node2") = hr

\* The virtual entries of node n: the hashes of its virtual keys.
EntriesOf(n) == {hashKey(VirtualKey(n, i)) : i \in 0..(VirtualNodes - 1)}

\* C23: in every reachable ring state the virtual-entry list is sorted
\* ascending by hash, holds exactly V entries for each node of the ring and
\* none for any other node, and each entry is mapped to the node that
\* contributed it.
C23_RingStructure ==
    /\ \A i \in 1..(Len(hr.sortedHashes) - 1) : hr.sortedHashes[i] <= hr.sortedHashes[i + 1]
    /\ Len(hr.sortedHashes) = VirtualNodes * NodeCount(hr)
    /\ \A i \in 1..Len(hr.sortedHashes) :
          /\ MapGet(hr.hashToNode, hr.sortedHashes[i]) \in hr.nodes
          /\ hr.sortedHashes[i] \in EntriesOf(MapGet(hr.hashToNode, hr.sortedHashes[i]))
    /\ \A n \in hr.nodes :
          Cardinality({i \in 1..Len(hr.sortedHashes) :
                          MapGet(hr.hashToNode, hr.sortedHashes[i]) = n}) = VirtualNodes

\* How far the hash x lies ahead of the hash h on the ring, walking forward
\* and wrapping from the largest hash to the smallest.
Ahead(x, h) == IF x >= h THEN x - h ELSE x + (HashMax + 1) - h

\* The entries of the nodes in the ring.
RingEntries == UNION {EntriesOf(n) : n \in hr.nodes}

\* Where the walk for the hash h starts: the smallest entry >= h, the
\* smallest entry of all when there is none.
WalkStart(h) ==
    LET above == {x \in RingEntries : x >= h}
        from == IF above = {} THEN RingEntries ELSE above
    IN CHOOSE x \in from : \A y \in from : x <= y

\* How far into the walk that starts at the entry s the node n is first met.
FirstMet(n, s) ==
    LET d == {Ahead(x, s) : x \in EntriesOf(n)}
    IN CHOOSE a \in d : \A b \in d : a <= b

\* C24: GetNodes(key, count) lists min(count, NodeCount) nodes of the ring in
\* the order their virtual entries are first met on the walk forward from the
\* smallest entry >= hashKey(key) (from index 0 when there is none, and again
\* at the end of the list); its first element owns the starting entry.
C24_WalkOrder ==
    \A key \in ObjectIDs, count \in Counts :
        NodeCount(hr) > 0 =>
            LET got == GetNodes(hr, key, count)
                s == WalkStart(hashKey(key))
            IN /\ Len(got) = Min(count, NodeCount(hr))
               /\ Range(got) \subseteq hr.nodes
               /\ IsDistinct(got)
               /\ Len(got) > 0 => s \in EntriesOf(got[1])
               /\ \A i, j \in 1..Len(got) : i < j => FirstMet(got[i], s) <= FirstMet(got[j], s)
               /\ \A n \in hr.nodes \ Range(got), i \in 1..Len(got) :
                     FirstMet(got[i], s) <= FirstMet(n, s)

\* C33: for a node x that is not in the ring, AddNode(x) followed by
\* RemoveNode(x) gives back the ring: the same virtual entries with the same
\* owners and the same GetNodes result for every key and count.
C33_AddRemoveRoundTrip ==
    \A x \in NodeIDs \ hr.nodes :
        LET r == RemoveNode(AddNode(hr, x), x)
        IN /\ r.sortedHashes = hr.sortedHashes
           /\ r.hashToNode = hr.hashToNode
           /\ SameAnswers(r)

\* The counts GetNodes is called with: negative, zero, up to and beyond the
\* number of nodes.
AnyCounts == {-1} \cup Counts

\* C36: in every ring state AddNode and RemoveNode reach, for every key and
\* every count, negative and zero included, GetNodes returns: it does not
\* panic, its loop indexes sortedHashes within bounds and ends after at most
\* as many iterations as there are virtual entries.
C36_GetNodesTerminates ==
    \A key \in ObjectIDs, count \in AnyCounts :
        hr.nodes # {} =>
            /\ ~GetNodesPanics(hr, count)
            /\ LoopSteps(hr, hashKey(key),
                         IF count > Cardinality(hr.nodes) THEN Cardinality(hr.nodes) ELSE count,
                         findNodeIndex(hr, hashKey(key)), <<>>, 0) \in 0..Len(hr.sortedHashes)

\* ------------------------------------------------------ store claims
\* A client's last upload ran StoreObject, which returned the replica list.
Stored(c, id) ==
    /\ req[c].pc = "idle"
    /\ req[c].result.op = "upload"
    /\ req[c].result.status = 201
    /\ req[c].result.id = id

\* What a RetrieveObject(id) issued now hands back: the bytes its reader
\* yields, or "not found".
Retrieved(id) ==
    IF RetrieveObject(id) = NoNode
    THEN [found |-> FALSE, node |-> NoNode, bytes |-> <<>>]
    ELSE [found |-> TRUE, node |-> RetrieveObject(id),
          bytes |-> ReadAll(OpenReader(RetrieveObject(id), id))]

\* C1: once StoreObject(id, b) has returned successfully and no blob of id was
\* deleted since, RetrieveObject(id) succeeds and its reader yields exactly b.
C1_RoundTrip ==
    \A c \in Clients, b \in Blobs :
        (/\ Stored(c, GenerateObjectID(b))
         /\ deletes = 0
         /\ copyFailures = 0
         /\ healFaults = 0
         /\ ~RetrieveBlocked(GenerateObjectID(b)))
        => (Retrieved(GenerateObjectID(b)).found /\ Retrieved(GenerateObjectID(b)).bytes = b)

\* C2: on a node with no Store in progress, every blob that exists under id
\* holds exactly the bytes uploaded for id.
C2_BlobIntegrity ==
    \A n \in NodeIDs, id \in ObjectIDs :
        (~NodeWriteLocked(n) /\ Exists(n, id)) => files[n][id].bytes = DataOf(id)

\* What CheckReplicas(id) reports in the state a step leads to.
ReplicasAfter(id) == {n \in mgrNodes' : files'[n][id].exists}

\* C3: with every ring node registered and accepting writes, when an
\* EnsureReplication run for id completes while a replica of id survives,
\* CheckReplicas(id) reports min(R, N) nodes.
C3_ReplicaConvergence ==
    [][\A c \in Clients :
          (/\ heal[c].pc # "idle"
           /\ heal'[c].pc = "idle"
           /\ mgrNodes = hr.nodes
           /\ storeFailures' = 0
           /\ copyFailures' = 0
           /\ healFaults' = 0
           /\ ReplicasAfter(heal[c].id) # {})
          => Cardinality(ReplicasAfter(heal[c].id)) = Min(Replication, NodeCount(hr))]_vars

\* The case of C4: R = 2, three ring nodes, an upload wrote both ring targets
\* of id, and the only fault since is the removal of the blob from target
\* number k, which is still missing there.
ReadFallbackCase(c, id, k) ==
    LET targets == GetTargetNodes(id) IN
    /\ Replication = 2
    /\ NodeCount(hr) = 3
    /\ Len(targets) = 2
    /\ Stored(c, id)
    /\ req[c].result.replicas = targets
    /\ deletes = 1
    /\ storeFailures = 0
    /\ copyFailures = 0
    /\ healFaults = 0
    /\ ~Exists(targets[k], id)
    /\ ~RetrieveBlocked(id)

\* C4: with R = 2 and N = 3, after StoreObject wrote both ring targets, the
\* removal of the blob from one target leaves RetrieveObject succeeding with
\* the bytes b, served from the other target.
C4_ReadFallback ==
    \A c \in Clients, id \in ObjectIDs, k \in 1..2 :
        ReadFallbackCase(c, id, k) =>
            /\ Retrieved(id).found
            /\ Retrieved(id).node = GetTargetNodes(id)[3 - k]
            /\ Retrieved(id).bytes = DataOf(id)

C4_Witness ==
    \E c, d \in Clients, id \in ObjectIDs, k \in 1..2 :
        /\ ReadFallbackCase(c, id, k)
        /\ req[d].result.op = "getObject"
        /\ req[d].result.status = 200
        /\ req[d].result.replicas = <<GetTargetNodes(id)[3 - k]>>
        /\ req[d].result.data = DataOf(id)

\* The targets of a finished StoreObject whose Node.Store succeeded, in the
\* order of the target list.
RECURSIVE SucceededTargets(_, _, _)
SucceededTargets(targets, outcomes, i) ==
    IF i > Len(targets) THEN <<>>
    ELSE (IF outcomes[i] = "ok" THEN <<targets[i]>> ELSE <<>>)
             \o SucceededTargets(targets, outcomes, i + 1)

\* A client's last request was an upload whose StoreObject ran its loop.
StoreObjectReturned(c) ==
    /\ req[c].pc = "idle"
    /\ req[c].result.op = "upload"
    /\ req[c].result.status \in {201, 500}

\* C5: StoreObject returns normally exactly when some registered ring target
\* accepted the write; it then returns the targets whose Store succeeded, in
\* ring order; otherwise (every write failed, or no target is registered, or
\* there is no target) it returns an error and no list.
C5_PartialSuccess ==
    \A c \in Clients :
        StoreObjectReturned(c) =>
            LET r == req[c]
                ok == SucceededTargets(r.targets, r.outcomes, 1)
            IN /\ Len(r.outcomes) = Len(r.targets)
               /\ \A i \in 1..Len(r.targets) :
                     (r.outcomes[i] = "skip") <=> (r.targets[i] \notin mgrNodes)
               /\ (r.result.status = 201) <=> (ok # <<>>)
               /\ r.result.status = 201 => (r.result.replicas = ok /\ r.result.err = "")
               /\ r.result.status = 500 => (r.result.replicas = <<>> /\ r.result.err # "")

C5_Witness ==
    \E c \in Clients :
        /\ StoreObjectReturned(c)
        /\ req[c].result.status = 201
        /\ Len(req[c].targets) = 2
        /\ req[c].outcomes = <<"fail", "ok">>

\* C8: with no node in the ring GetNodes returns the empty list for every key
\* and count, and an upload's StoreObject fails with the no-nodes error and
\* writes no blob to any node.
C8_EmptyRing ==
    NodeCount(hr) = 0 =>
        /\ \A key \in ObjectIDs, count \in Counts : GetNodes(hr, key, count) = <<>>
        /\ \A c \in Clients :
              /\ req[c].pc \notin {"store", "copy", "finish"}
              /\ req[c].result.op = "upload" =>
                    /\ req[c].result.status = 500
                    /\ req[c].result.err = "no storage nodes available"
        /\ \A n \in NodeIDs, id \in ObjectIDs : ~Exists(n, id)

C8_Witness ==
    /\ NodeCount(hr) = 0
    /\ \E c \in Clients : req[c].result.op = "upload" /\ req[c].result.status = 500

\* --------------------------------------------------- metadata claims
\* Client c starts an upload of bytes whose metadata record is persisted: the
\* second of two uploads of the same bytes in sequence.
SecondUploadStep(c, id) ==
    /\ serving
    /\ req[c].pc = "idle"
    /\ MetadataExists(id)
    /\ req'[c] # req[c]
    /\ \/ req'[c].pc = "store" /\ req'[c].id = id
       \/ req'[c].pc = "idle" /\ req'[c].result.op = "upload" /\ req'[c].result.id = id

\* C11: an upload of bytes whose record is persisted returns at once with the
\* ObjectID of the first upload, writes no blob and leaves the persisted
\* record, created_at included, as it was.
C11_IdempotentUpload ==
    [][\A c \in Clients, b \in Blobs :
          SecondUploadStep(c, GenerateObjectID(b)) =>
              /\ req'[c].pc = "idle"
              /\ req'[c].result.status = 200
              /\ req'[c].result.id = MetadataGet(GenerateObjectID(b)).id
              /\ files' = files
              /\ metadata' = metadata]_vars

C11_Witness ==
    \E c, d \in Clients, id \in ObjectIDs :
        /\ c # d
        /\ req[c].result.op = "upload" /\ req[c].result.status = 201 /\ req[c].result.id = id
        /\ req[d].result.op = "upload" /\ req[d].result.status = 200 /\ req[d].result.id = id
        /\ MetadataGet(id).createdAt = 1

\* C12: every persisted metadata record has a non-empty replicas list.
C12_ReplicasNonEmpty ==
    \A id \in ObjectIDs : MetadataExists(id) => MetadataGet(id).replicas # <<>>

\* Every upload and every self-heal run has completed.
Quiescent ==
    \A c \in Clients : req[c].pc = "idle" /\ heal[c].pc = "idle"

\* C13: at quiescence, with no blob removed from any node, the replicas list
\* of the persisted record of id names exactly the nodes CheckReplicas(id)
\* reports.
C13_MetadataConvergence ==
    \A id \in ObjectIDs :
        (/\ Quiescent
         /\ MetadataExists(id)
         /\ deletes = 0
         /\ copyFailures = 0
         /\ healFaults = 0)
        => Range(MetadataGet(id).replicas) = CheckReplicas(id)

\* ------------------------------------------------------ heal claims
\* A read of id finds fewer than min(R, N) replicas: GET object has got its
\* reader from RetrieveObject, or GET metadata has answered with a replicas
\* list that is too short; some registered node holds id, every node is
\* registered and no further fault can happen.
ReadWhileDegraded(id, kinds) ==
    /\ \E c \in Clients :
          \/ /\ "getObject" \in kinds
             /\ req[c].pc = "stream"
             /\ req[c].id = id
          \/ /\ "getMetadata" \in kinds
             /\ req[c].pc = "idle"
             /\ req[c].result.op = "getMetadata"
             /\ req[c].result.status = 200
             /\ req[c].result.id = id
             /\ Len(req[c].result.replicas) < Min(Replication, NodeCount(hr))
    /\ serving
    /\ mgrNodes = hr.nodes
    /\ deletes = MaxFaults
    /\ CheckReplicas(id) # {}
    /\ Cardinality(CheckReplicas(id)) < Min(Replication, NodeCount(hr))

\* The replica count of id is back at min(R, N).
Restored(id) ==
    Cardinality(CheckReplicas(id)) >= Min(Replication, NodeCount(hr))

\* C22: when an object or its metadata is retrieved while fewer than R
\* replicas survive, repair runs in the background and the replica count is
\* eventually restored.
C22_DetectionOnRead ==
    \A id \in ObjectIDs :
        ReadWhileDegraded(id, {"getObject", "getMetadata"}) ~> Restored(id)

\* C25: a run of ensureReplication that completes without a write failure
\* while some registered node holds the object leaves it on at least
\* min(Replication, N) registered nodes, wherever the surviving replicas are.
C25_HealFromAnySurvivor ==
    [][\A c \in Clients :
          (/\ heal[c].pc # "idle"
           /\ heal'[c].pc = "idle"
           /\ mgrNodes = hr.nodes
           /\ healFaults' = 0
           /\ ReplicasAfter(heal[c].id) # {})
          => Cardinality(ReplicasAfter(heal[c].id)) >= Min(Replication, NodeCount(hr))]_vars

\* C26: a run of ensureReplication calls ReplicateObject only for ring targets
\* of the id that are not in the replica set it observed at its start, counts
\* at most max(0, Replication - |observed|) successful replications, and when
\* it observes Replication or more replicas it ends at once and writes no
\* blob and no metadata.
C26_RunBounded ==
    [][\A c \in Clients :
          /\ HealReplicateOpen(c) =>
                /\ heal[c].targets[heal[c].i] \in Range(GetTargetNodes(heal[c].id))
                /\ heal[c].targets[heal[c].i] \notin heal[c].availableReplicas
          /\ \/ heal'[c].replicated = 0
             \/ heal'[c].replicated <= Replication - Cardinality(heal'[c].availableReplicas)
          /\ (HealCheck(c) /\ Cardinality(CheckReplicas(heal[c].id)) >= Replication) =>
                /\ heal'[c].pc = "idle"
                /\ files' = files
                /\ metadata' = metadata]_vars

\* A run that observed one replica has replicated once and is about to save,
\* while the other run has ended.
C26_Witness ==
    \E c, d \in Clients :
        /\ c # d
        /\ heal[c].pc = "save"
        /\ heal[c].replicated = 1
        /\ Cardinality(heal[c].availableReplicas) = 1
        /\ heal[d].pc = "idle"
        /\ healFaults = 1

\* C27: a run of ensureReplication that replicated at least once saves a
\* record whose replicas are those of a fresh CheckReplicas and whose id, size
\* and created_at are those of the record the first upload stored; a run that
\* replicated nothing leaves the metadata alone.
C27_RepairKeepsRecord ==
    [][\A c \in Clients :
          HealFinish(c) =>
              IF heal[c].replicated > 0
              THEN /\ Range(metadata'[heal[c].id].replicas) = CheckReplicas(heal[c].id)
                   /\ Len(metadata'[heal[c].id].replicas) = Cardinality(CheckReplicas(heal[c].id))
                   /\ metadata'[heal[c].id].id = heal[c].id
                   /\ metadata'[heal[c].id].size = Len(DataOf(heal[c].id))
                   /\ metadata'[heal[c].id].createdAt = 1
              ELSE metadata' = metadata]_vars

\* ---------------------------------------------------- manager claims
\* The last call of the log.
LastCall(l) == l[Len(l)]

\* The positions in the target list of id at which a registered node holds id.
HolderPositions(id) ==
    LET targets == GetNodes(hr, id, Replication)
    IN {k \in 1..Len(targets) : targets[k] \in mgrNodes /\ files[targets[k]][id].exists}

C17_CheckReplicasExact ==
    [][\A id \in ObjectIDs :
          CallCheckReplicas(id) =>
              LET r == LastCall(log')
              IN /\ Range(r.nodes) = {n \in mgrNodes : files[n][id].exists}
                 /\ Len(r.nodes) = Cardinality(Range(r.nodes))
                 /\ UNCHANGED <<hashTable, hr, mgrNodes, files, metadata>>
                 /\ (/\ Len(log') = 2
                     /\ log'[1].op = "StoreObject"
                     /\ log'[1].err = ""
                     /\ log'[1].id = id)
                    => Range(log'[1].nodes) \subseteq Range(r.nodes)]_vars

C17_Witness ==
    /\ Len(log) = 2
    /\ log[1].op = "StoreObject" /\ log[1].err = "" /\ Len(log[1].nodes) = 2
    /\ log[2].op = "CheckReplicas" /\ log[2].id = log[1].id
    /\ Range(log[1].nodes) \subseteq Range(log[2].nodes)
    /\ \E n \in Range(log[2].nodes) : n \notin Range(GetNodes(hr, log[2].id, Replication))

\* C17 under concurrent uploads: when StoreObject returns its achieved list,
\* with no blob deleted from any node, CheckReplicas(id) contains every node
\* of the list.
C17_AchievedListHeld ==
    \A c \in Clients :
        (req[c].pc = "finish" /\ deletes = 0 /\ healFaults = 0)
        => Range(req[c].replicatedNodes) \subseteq CheckReplicas(req[c].id)

\* The threads inside Node.Store on node n, between os.Create and the return.
StoreSections(n) ==
    {<<"upload", c>> : c \in {d \in Clients : req[d].pc = "copy" /\ req[d].targets[req[d].i] = n}}
        \cup {<<"heal", c>> : c \in {d \in Clients : heal[d].pc = "copy" /\ heal[d].targets[heal[d].i] = n}}

\* Every upload and every self-heal run has returned, no blob was deleted, and
\* every node in the list of a successful StoreObject holds the whole object.
WrittenNodesComplete ==
    (Quiescent /\ deletes = 0 /\ healFaults = 0) =>
        \A c \in Clients :
            (req[c].result.op = "upload" /\ req[c].result.status = 201) =>
                \A n \in Range(req[c].result.replicas) :
                    files[n][req[c].result.id] = File(DataOf(req[c].result.id))

\* C29: under concurrent uploads of the same bytes no two Node.Store sections
\* of one node overlap, no Node.Delete, Exists probe or Retrieve open falls
\* inside one, and once every call has returned every node a StoreObject wrote
\* holds one blob of the id with the complete bytes.
C29_ConcurrentWrites ==
    [][/\ \A n \in NodeIDs : Cardinality(StoreSections(n)') <= 1
       /\ \A n \in NodeIDs, id \in ObjectIDs : DeleteBlob(n, id) => StoreSections(n) = {}
       /\ \A c \in Clients : HealCheck(c) => \A n \in mgrNodes : StoreSections(n) = {}
       /\ \A c \in Clients :
             (HealReplicateOpen(c) /\ heal'[c].pc = "storeBegin")
                 => StoreSections(heal'[c].reader.node) = {}
       /\ WrittenNodesComplete']_vars

\* No blob was deleted and no Node.Store failed.
NoFaults == deletes = 0 /\ storeFailures = 0 /\ copyFailures = 0 /\ healFaults = 0

\* C32: with no blob deleted and no failing Store, what GetObjectHandler
\* streams from the reader RetrieveObject opened is the complete object, also
\* when a Node.Store of the same id on the same node starts between the open
\* and the read.
C32_NoTornReads ==
    [][\A c \in Clients :
          (GetObjectStream(c) /\ NoFaults)
              => req'[c].result.data = DataOf(req[c].id)]_vars

\* Client c's upload of the bytes of id returns success in this step: 201
\* created or 200 already exists.
UploadSucceeds(c, id) ==
    /\ req[c].pc \in {"idle", "finish"}
    /\ req'[c] # req[c]
    /\ req'[c].pc = "idle"
    /\ req'[c].result.op = "upload"
    /\ req'[c].result.status \in {200, 201}
    /\ req'[c].result.id = id

\* C34: when an upload of b returns success with id and no Node.Store is under
\* way, RetrieveObject(id) called right after finds the object and reads b:
\* for 201 created when no blob was deleted and no Store failed, for 200
\* already exists whatever happened to the blobs before the upload.
C34_UploadedIsRetrievable ==
    [][\A c \in Clients, id \in ObjectIDs :
          (/\ UploadSucceeds(c, id)
           /\ \A n \in NodeIDs : StoreSections(n)' = {}
           /\ req'[c].result.status = 201 => NoFaults')
              => /\ RetrieveObject(id)' # NoNode
                 /\ files'[RetrieveObject(id)'][id].bytes = DataOf(id)]_vars

\* C28: ReplicateObject(id, t) returns an error and changes no blob when no
\* registered ring target holds id or t is not registered; when it returns nil
\* node t holds the bytes the source replica held, ring target or not.
C28_ReplicateObject ==
    [][\A id \in ObjectIDs, t \in NodeIDs :
          CallReplicateObject(id, t) =>
              LET source == RetrieveObject(id)
                  err == log'[Len(log')].err
              IN /\ (source = NoNode \/ t \notin mgrNodes) => (err # "" /\ files' = files)
                 /\ err = "" => files'[t][id] = File(files[source][id].bytes)]_vars

\* C31: ReplicateObject(id, t) on a registered node t that already holds id,
\* while some registered ring target holds it, returns nil and leaves t's blob
\* with the bytes it had, also when t is the source itself.
C31_ReplicateIdempotent ==
    [][\A id \in ObjectIDs, t \in NodeIDs :
          (/\ CallReplicateObject(id, t)
           /\ t \in mgrNodes
           /\ Exists(t, id)
           /\ RetrieveObject(id) # NoNode)
          => /\ log'[Len(log')].err = ""
             /\ files'[t][id] = files[t][id]]_vars

\* Every node of the ring owns its V virtual entries and there are no others.
RingIntact ==
    /\ Len(hr.sortedHashes) = VirtualNodes * NodeCount(hr)
    /\ \A n \in hr.nodes :
          Cardinality({i \in 1..Len(hr.sortedHashes) :
                          MapGet(hr.hashToNode, hr.sortedHashes[i]) = n}) = VirtualNodes

Writes(k, n, id) ==
    log[k].node = n /\ log[k].id = id /\ log[k].op \in {"Store", "Delete"}

\* Call k is a Store of id on node n that returned nil.
Stores(k, n, id) ==
    log[k].node = n /\ log[k].id = id /\ log[k].op = "Store" /\ log[k].err = ""

\* C18: after Store(id, b) returned nil on a node, and before any Delete(id)
\* or further Store(id) on it, Exists(id) is true, Retrieve(id) yields b and
\* GetSize(id) is the length of b.
C18_NodeRoundTrip ==
    \A i, j \in 1..Len(log) :
        (/\ i < j
         /\ log[i].id \in ObjectIDs
         /\ Stores(i, log[i].node, log[i].id)
         /\ log[j].node = log[i].node /\ log[j].id = log[i].id
         /\ \A k \in (i + 1)..(j - 1) : ~Writes(k, log[i].node, log[i].id))
        => /\ log[j].op = "Exists" => log[j].found
           /\ log[j].op = "Retrieve" => log[j].err = "" /\ log[j].bytes = log[i].arg
           /\ log[j].op = "GetSize" => log[j].err = "" /\ log[j].size = Len(log[i].arg)

C18_Witness ==
    /\ Len(log) = 3
    /\ log[1].id \in ObjectIDs
    /\ Stores(1, log[1].node, log[1].id) /\ log[1].arg = <<7, 9>>
    /\ Stores(2, log[1].node, log[1].id) /\ log[2].arg = <<7>>
    /\ log[3].node = log[1].node /\ log[3].id = log[1].id
    /\ log[3].op = "GetSize" /\ log[3].size = 1

\* C19: Delete(id) returns without error whether or not the blob is there;
\* after it, and until the next Store(id) that returns nil, Exists(id) is
\* false and Retrieve(id) and GetSize(id) fail with not-found.
C19_DeleteIdempotent ==
    /\ \A i \in 1..Len(log) :
          log[i].op = "Delete" /\ log[i].id \in ObjectIDs => log[i].err = ""
    /\ \A i, j \in 1..Len(log) :
          (/\ i < j
           /\ log[i].id \in ObjectIDs
           /\ log[i].op = "Delete"
           /\ log[j].node = log[i].node /\ log[j].id = log[i].id
           /\ \A k \in (i + 1)..(j - 1) : ~Stores(k, log[i].node, log[i].id))
          => /\ log[j].op = "Exists" => ~log[j].found
             /\ log[j].op = "Retrieve" => log[j].err = "object not found"
             /\ log[j].op = "GetSize" => log[j].err = "object not found"

C19_Witness ==
    /\ Len(log) = 3
    /\ log[1].id \in ObjectIDs
    /\ log[1].op = "Delete" /\ log[1].err = ""
    /\ log[2].op = "Delete" /\ log[2].err = "" /\ log[2].id = log[1].id
    /\ log[3].op = "Retrieve" /\ log[3].err = "object not found" /\ log[3].id = log[1].id

\* C20: a call given a malformed ObjectID is rejected with InvalidArgument:
\* it does not panic, and no blob is ever stored under such an ID.
C20_MalformedRejected ==
    /\ \A i \in 1..Len(log) :
          log[i].id \in MalformedIDs => log[i].err = "invalid argument"
    /\ \A n \in NodeIDs, id \in MalformedIDs : ~files[n][id].exists

\* C30: after Store(id) failed on a node while copying the data, and until the
\* next Store(id) that returns nil on it, Exists(id) is false and Retrieve(id)
\* and GetSize(id) fail with not-found, whatever the node held before.
C30_FailedStoreLeavesNothing ==
    \A i, j \in 1..Len(log) :
        (/\ i < j
         /\ log[i].op = "Store"
         /\ log[i].err = "failed to write object data"
         /\ log[j].node = log[i].node /\ log[j].id = log[i].id
         /\ \A k \in (i + 1)..(j - 1) : ~Stores(k, log[i].node, log[i].id))
        => /\ log[j].op = "Exists" => ~log[j].found
           /\ log[j].op = "Retrieve" => log[j].err = "object not found"
           /\ log[j].op = "GetSize" => log[j].err = "object not found"

C30_Witness ==
    /\ Len(log) = 3
    /\ Stores(1, log[1].node, log[1].id)
    /\ log[2].op = "Store" /\ log[2].err = "failed to write object data"
    /\ log[2].node = log[1].node /\ log[2].id = log[1].id
    /\ log[3].node = log[1].node /\ log[3].id = log[1].id
    /\ log[3].op = "Exists" /\ ~log[3].found

\* ------------------------------------------------------- lock claims
\* C14: whatever operations run concurrently, none is blocked forever on a
\* lock: in every reachable state either every started operation has
\* returned or some thread can take a step.
C14_DeadlockFree ==
    (\A t \in LockThreads : ops[t].op # "none" => ops[t].returned) \/ ENABLED NextLocks

\* C15 as stated: no operation holds the ring lock and the manager lock at
\* the same time.
C15_LockOrdering ==
    \A t \in LockThreads : ~(Holds(t, "ring") /\ Holds(t, "manager"))

\* C15 amended: the ring lock is the innermost lock.  An operation that holds
\* the ring lock takes no other lock before it releases it, and when it holds
\* the manager lock as well it holds the manager lock in read mode.
C15_RingLockInnermost ==
    \A t \in LockThreads :
        Holds(t, "ring") =>
            /\ Running(t)
            /\ Instr(t).lock = "ring"
            /\ Instr(t).act \in {"RUnlock", "Unlock"}
            /\ Holds(t, "manager") => mu["manager"].readers[t] > 0

C15_Witness ==
    \E t \in LockThreads :
        /\ ops[t].op = "StoreObject"
        /\ Holds(t, "ring")
        /\ Holds(t, "manager")

====
